---- MODULE Spec2Model ----
(***************************************************************************)
(* A model of VulkanStarterProject/main.cpp: the HelloTriangleApplication  *)
(* start-up pipeline (window, instance, surface, physical device, logical  *)
(* device, swapchain, image views), its event loop and its teardown, with  *)
(* the windowing library and the Vulkan driver as the environment whose    *)
(* answers are drawn from bounded sets.                                    *)
(***************************************************************************)
EXTENDS Integers, Sequences, FiniteSets, TLC

(***************************************************************************)
(* Bounds of the model.                                                    *)
(***************************************************************************)
\* Most physical devices the driver enumerates.
MaxDevices == 2
\* Most queue families one physical device reports.
MaxFamilies == 2
\* Most surface formats / present modes one device reports for the surface.
MaxFormats == 1
MaxModes == 1
\* Most images the driver puts in a swapchain.
MaxImages == 2
\* Most iterations of the event loop that are followed.
MaxPolls == 1
\* Longest queue-family list a scan is followed over on its own.
MaxScan == 4
\* Longest present-mode list / surface-format list a selection is followed
\* over on its own.
MaxModeScan == 3
MaxFormatScan == 4
\* uint32_t is modelled at this width: values are 0 .. 2^UintBits - 1 and
\* arithmetic wraps modulo 2^UintBits.
UintBits == 3

(***************************************************************************)
(* Program constants.                                                      *)
(***************************************************************************)
\* VkPhysicalDevice physicalDevice = VK_NULL_HANDLE; device handles are the
\* 1-based positions in the enumeration, so 0 is no device.
VK_NULL_HANDLE == 0

UintModulus == 2 ^ UintBits
\* std::numeric_limits<uint32_t>::max()
UINT32_MAX == UintModulus - 1
\* The largest value of int, the type glfwGetFramebufferSize writes.
INT_MAX == (UintModulus \div 2) - 1
Uint32 == 0 .. UINT32_MAX

\* const std::vector<const char*> validationLayers
validationLayers == {"VK_LAYER_KHRONOS_validation"}
\* const std::vector<const char*> deviceExtensions
deviceExtensions == {"VK_KHR_swapchain"}

SeqsUpTo(S, n) == UNION {[1 .. k -> S] : k \in 0 .. n}

(***************************************************************************)
(* std::optional<uint32_t>: <<>> is nullopt, <<i>> holds i.                *)
(***************************************************************************)
nullopt == << >>
has_value(o) == o # << >>
value(o) == o[1]

\* QueueFamilyIndices::isComplete
isComplete(indices) ==
    has_value(indices.graphicsFamily) /\ has_value(indices.presentationFamily)

(***************************************************************************)
(* What the driver reports.  A queue family is its graphics bit and the    *)
(* answer of vkGetPhysicalDeviceSurfaceSupportKHR for it and the surface.  *)
(***************************************************************************)
QueueFamilyProperties == [graphics : BOOLEAN, presentationSupport : BOOLEAN]

PreferredFormat == [format |-> "B8G8R8A8_SRGB", colorSpace |-> "SRGB_NONLINEAR"]
OtherFormat == [format |-> "B8G8R8A8_UNORM", colorSpace |-> "SRGB_NONLINEAR"]
SurfaceFormats == {PreferredFormat, OtherFormat}
PresentModes == {"FIFO", "MAILBOX"}

\* One physical device: its queue families, the device extensions it
\* exposes, and the formats and present modes it supports for the surface.
PhysicalDevices ==
    [families : SeqsUpTo(QueueFamilyProperties, MaxFamilies),
     extensions : SUBSET deviceExtensions,
     formats : SeqsUpTo(SurfaceFormats, MaxFormats),
     presentModes : SeqsUpTo(PresentModes, MaxModes)]

DeviceLists == SeqsUpTo(PhysicalDevices, MaxDevices)

(***************************************************************************)
(* findQueueFamilies: the scan over the family list, index i from 0.       *)
(***************************************************************************)
\* The loop body recording an index only while none is recorded yet.
ScanStepKeepFirst(properties, i, indices) ==
    LET g == IF properties[i + 1].graphics /\ ~has_value(indices.graphicsFamily)
             THEN <<i>> ELSE indices.graphicsFamily
        p == IF properties[i + 1].presentationSupport
                /\ ~has_value(indices.presentationFamily)
             THEN <<i>> ELSE indices.presentationFamily
    IN [graphicsFamily |-> g, presentationFamily |-> p]

\* One iteration of the loop body at index i (0-based) after the
\* isComplete test has let it run.
ScanStep(properties, i, indices) ==
    LET g == IF properties[i + 1].graphics THEN <<i>> ELSE indices.graphicsFamily
        p == IF properties[i + 1].presentationSupport
             THEN <<i>> ELSE indices.presentationFamily
    IN [graphicsFamily |-> g, presentationFamily |-> p]

RECURSIVE ScanFrom(_, _, _)
ScanFrom(properties, i, indices) ==
    IF i >= Len(properties) \/ isComplete(indices)
    THEN indices
    ELSE ScanFrom(properties, i + 1, ScanStep(properties, i, indices))

findQueueFamilies(device) ==
    ScanFrom(device.families, 0,
             [graphicsFamily |-> nullopt, presentationFamily |-> nullopt])

\* checkDeviceExtensionSupport: every available extension is erased from the
\* required set; supported when nothing is left.
checkDeviceExtensionSupport(device) ==
    (deviceExtensions \ device.extensions) = {}

\* querySwapChainSupport: the formats and present modes of the device.
querySwapChainSupport(device) ==
    [formats |-> device.formats, presentModes |-> device.presentModes]

\* isDeviceSuitable without the isComplete() test of the resolved indices.
isDeviceSuitableIgnoringQueues(device) ==
    LET extensionSupported == checkDeviceExtensionSupport(device)
        swapchain == querySwapChainSupport(device)
    IN /\ extensionSupported
       /\ swapchain.formats # << >>
       /\ swapchain.presentModes # << >>

isDeviceSuitable(device) ==
    LET indices == findQueueFamilies(device)
        extensionSupported == checkDeviceExtensionSupport(device)
        swapChainAdequate ==
            IF extensionSupported
            THEN LET swapchain == querySwapChainSupport(device)
                 IN swapchain.formats # << >> /\ swapchain.presentModes # << >>
            ELSE FALSE
    IN isComplete(indices) /\ extensionSupported /\ swapChainAdequate

\* The loop of pickPhysicalDevice without its break: the last suitable
\* device wins.
RECURSIVE LastSuitableFrom(_, _)
LastSuitableFrom(devs, k) ==
    IF k > Len(devs) THEN VK_NULL_HANDLE
    ELSE LET later == LastSuitableFrom(devs, k + 1)
         IN IF later # VK_NULL_HANDLE THEN later
            ELSE IF isDeviceSuitable(devs[k]) THEN k
            ELSE VK_NULL_HANDLE

\* The loop of pickPhysicalDevice from position k (1-based): the handle of
\* the first device that isDeviceSuitable accepts, VK_NULL_HANDLE if none.
RECURSIVE FirstSuitableFrom(_, _)
FirstSuitableFrom(devs, k) ==
    IF k > Len(devs) THEN VK_NULL_HANDLE
    ELSE IF isDeviceSuitable(devs[k]) THEN k
    ELSE FirstSuitableFrom(devs, k + 1)

(***************************************************************************)
(* The swapchain configurator's pure choices.                              *)
(***************************************************************************)
\* What reading availableFormats[0] of an empty vector yields: no format of
\* the surface.
IndeterminateFormat == [format |-> "INDETERMINATE", colorSpace |-> "INDETERMINATE"]

\* The loop comparing the format alone, not the colour space.
RECURSIVE FirstOfFormatFrom(_, _)
FirstOfFormatFrom(availableFormats, k) ==
    IF k > Len(availableFormats)
    THEN IF availableFormats = << >> THEN IndeterminateFormat
         ELSE availableFormats[1]
    ELSE IF availableFormats[k].format = "B8G8R8A8_SRGB"
    THEN availableFormats[k]
    ELSE FirstOfFormatFrom(availableFormats, k + 1)

RECURSIVE FirstPreferredFrom(_, _)
FirstPreferredFrom(availableFormats, k) ==
    IF k > Len(availableFormats)
    THEN IF availableFormats = << >> THEN IndeterminateFormat
         ELSE availableFormats[1]
    ELSE IF availableFormats[k].format = "B8G8R8A8_SRGB"
            /\ availableFormats[k].colorSpace = "SRGB_NONLINEAR"
    THEN availableFormats[k]
    ELSE FirstPreferredFrom(availableFormats, k + 1)

chooseSwapSurfaceFormat(availableFormats) == FirstPreferredFrom(availableFormats, 1)

\* The loop giving up after its first element.
chooseSwapPresentModeFirstOnly(availablePresentModes) ==
    IF availablePresentModes # << >> /\ availablePresentModes[1] = "MAILBOX"
    THEN "MAILBOX"
    ELSE "FIFO"

chooseSwapPresentMode(availablePresentModes) ==
    IF \E k \in 1 .. Len(availablePresentModes) : availablePresentModes[k] = "MAILBOX"
    THEN "MAILBOX"
    ELSE "FIFO"

\* static_cast<uint32_t>(int)
ToUint32(x) == x % UintModulus

\* std::clamp(v, lo, hi), defined for lo <= hi.
clamp(v, lo, hi) == IF v < lo THEN lo ELSE IF hi < v THEN hi ELSE v

Extent2D(w, h) == [width |-> w, height |-> h]

\* chooseSwapExtent clamping the height into the width's range.
chooseSwapExtentWidthRange(capabilities, framebuffer) ==
    IF capabilities.currentExtent.width # UINT32_MAX
    THEN capabilities.currentExtent
    ELSE Extent2D(clamp(ToUint32(framebuffer.width),
                        capabilities.minImageExtent.width,
                        capabilities.maxImageExtent.width),
                  clamp(ToUint32(framebuffer.height),
                        capabilities.minImageExtent.width,
                        capabilities.maxImageExtent.width))

\* chooseSwapExtent; framebuffer is what glfwGetFramebufferSize writes.
chooseSwapExtent(capabilities, framebuffer) ==
    IF capabilities.currentExtent.width # UINT32_MAX
    THEN capabilities.currentExtent
    ELSE Extent2D(clamp(ToUint32(framebuffer.width),
                        capabilities.minImageExtent.width,
                        capabilities.maxImageExtent.width),
                  clamp(ToUint32(framebuffer.height),
                        capabilities.minImageExtent.height,
                        capabilities.maxImageExtent.height))

\* The image count without the clamp to maxImageCount.
chooseImageCountUnclamped(capabilities) ==
    (capabilities.minImageCount + 1) % UintModulus

\* createSwapChain's imageCount: uint32_t minImageCount + 1, clamped down to
\* a nonzero maxImageCount.
chooseImageCount(capabilities) ==
    LET imageCount == (capabilities.minImageCount + 1) % UintModulus
    IN IF capabilities.maxImageCount > 0 /\ imageCount > capabilities.maxImageCount
       THEN capabilities.maxImageCount
       ELSE imageCount

(***************************************************************************)
(* The program's state.                                                    *)
(***************************************************************************)
VARIABLES
    pc,                   \* the call of main / run / initVulkan that is next
    glfw,                 \* the windowing library: "uninit", "init", "terminated"
    window,               \* GLFWwindow*: "unset", "NULL", "open", "destroyed"
    instance,             \* VkInstance:     "unset", "live", "destroyed"
    surface,              \* VkSurfaceKHR:   "unset", "live", "destroyed"
    devices,              \* what vkEnumeratePhysicalDevices reported
    physicalDevice,       \* handle of the selected device, or VK_NULL_HANDLE
    device,               \* VkDevice:       "unset", "live", "destroyed"
    graphicsQueue,        \* the family of the retrieved graphics queue
    presentationQueue,    \* the family of the retrieved presentation queue
    swapChain,            \* VkSwapchainKHR: "unset", "live", "destroyed"
    swapChainImages,      \* the images the swapchain owns, 1 .. n
    swapChainImageFormat,
    swapChainExtent,
    swapChainImageViews,  \* per image: "VK_NULL_HANDLE", "live", "destroyed"
    shouldClose,          \* the window's close flag
    polls,                \* iterations of the event loop so far
    error,                \* the exception in flight or caught, "none" if none
    diagnostic,           \* what main wrote to std::cerr
    exitStatus,           \* "running", "EXIT_SUCCESS", "EXIT_FAILURE", "ABORTED"
    calls,                \* the steps and collaborator calls made, in order
    call                  \* one call of a helper followed on its own (see below)

program == <<pc, glfw, window, instance, surface, devices, physicalDevice, device,
          graphicsQueue, presentationQueue, swapChain, swapChainImages,
          swapChainImageFormat, swapChainExtent, swapChainImageViews,
          shouldClose, polls, error, diagnostic, exitStatus, calls>>
vars == <<program, call>>

handles == <<glfw, window, instance, surface, device, swapChain>>
selection == <<devices, physicalDevice>>
queues == <<graphicsQueue, presentationQueue>>
chain == <<swapChainImages, swapChainImageFormat, swapChainExtent>>
loop == <<shouldClose, polls>>
outcome == <<diagnostic, exitStatus>>

VkResults == {"VK_SUCCESS", "VK_ERROR_INITIALIZATION_FAILED"}
LayerNames == validationLayers \cup {"VK_LAYER_LUNARG_api_dump"}

\* The surface capabilities and framebuffer sizes the start-up sequence is
\* run against; the configurator's choices are explored over all their
\* inputs by the specifications further down.
StartupCapabilities ==
    {[minImageCount |-> m, maxImageCount |-> x,
      currentExtent |-> Extent2D(c, c),
      minImageExtent |-> Extent2D(1, 1),
      maxImageExtent |-> Extent2D(INT_MAX, INT_MAX)] :
        m \in 1 .. (MaxImages - 1), x \in {0, MaxImages}, c \in {INT_MAX, UINT32_MAX}}
StartupFramebuffers == {Extent2D(0, 0)}

\* No helper is being followed on its own.
NoCall == [fn |-> "none"]

\* The program as main() finds it.
Constructed ==
    /\ pc = "initWindow"
    /\ glfw = "uninit"
    /\ window = "unset"
    /\ instance = "unset"
    /\ surface = "unset"
    /\ devices = << >>
    /\ physicalDevice = VK_NULL_HANDLE
    /\ device = "unset"
    /\ graphicsQueue = nullopt
    /\ presentationQueue = nullopt
    /\ swapChain = "unset"
    /\ swapChainImages = << >>
    /\ swapChainImageFormat = "UNDEFINED"
    /\ swapChainExtent = Extent2D(0, 0)
    /\ swapChainImageViews = << >>
    /\ shouldClose = FALSE
    /\ polls = 0
    /\ error = "none"
    /\ diagnostic = "none"
    /\ exitStatus = "running"
    /\ calls = << >>

Init == Constructed /\ call = NoCall

\* throw std::runtime_error(...): the exception leaves run() and is caught
\* in main.
Throw(e) == error' = e /\ pc' = "catch"
\* The step returns and the next one of the sequence is called.
Return(next) == error' = error /\ pc' = next

(***************************************************************************)
(* initWindow                                                              *)
(***************************************************************************)
InitWindow ==
    /\ pc = "initWindow"
    /\ UNCHANGED call
    /\ calls' = Append(calls, "initWindow")
    /\ \E glfwInitResult \in BOOLEAN, vulkanSupported \in BOOLEAN,
          creationFailed \in BOOLEAN :
        IF ~glfwInitResult
        THEN /\ Throw("EnvironmentUnavailable")
             /\ UNCHANGED <<glfw, window>>
        ELSE IF ~vulkanSupported
        THEN /\ Throw("EnvironmentUnavailable")
             /\ glfw' = "init"
             /\ window' = window
        ELSE /\ Return("createInstance")
             /\ glfw' = "init"
             \* glfwCreateWindow returns NULL when it fails; not tested.
             /\ window' = IF creationFailed THEN "NULL" ELSE "open"
    /\ UNCHANGED <<instance, surface, device, swapChain, selection, queues,
                   chain, swapChainImageViews, loop, outcome>>

(***************************************************************************)
(* createInstance                                                          *)
(***************************************************************************)
checkValidationLayerSupport(availableLayers) ==
    \A layerName \in validationLayers : layerName \in availableLayers

CreateInstance ==
    /\ pc = "createInstance"
    /\ UNCHANGED call
    /\ calls' = Append(calls, "createInstance")
    /\ \E enableValidationLayers \in BOOLEAN, availableLayers \in SUBSET LayerNames,
          result \in VkResults :
        IF enableValidationLayers /\ ~checkValidationLayerSupport(availableLayers)
        THEN Throw("UnsupportedLayer") /\ instance' = instance
        ELSE IF result # "VK_SUCCESS"
        THEN Throw("InstanceCreationFailed") /\ instance' = instance
        ELSE Return("createSurface") /\ instance' = "live"
    /\ UNCHANGED <<glfw, window, surface, device, swapChain, selection, queues,
                   chain, swapChainImageViews, loop, outcome>>

(***************************************************************************)
(* createSurface                                                           *)
(***************************************************************************)
CreateSurface ==
    /\ pc = "createSurface"
    /\ UNCHANGED call
    /\ calls' = Append(calls, "createSurface")
    /\ IF window = "NULL"
       THEN \* glfwCreateWindowSurface is handed a null window, which it
            \* requires not to be: the process is terminated in the call.
            /\ pc' = "exited"
            /\ exitStatus' = "ABORTED"
            /\ UNCHANGED <<error, surface, diagnostic>>
       ELSE \E result \in VkResults :
               IF result # "VK_SUCCESS"
               THEN Throw("SurfaceCreationFailed") /\ UNCHANGED <<surface, outcome>>
               ELSE /\ Return("pickPhysicalDevice")
                    /\ surface' = "live"
                    /\ UNCHANGED outcome
    /\ UNCHANGED <<glfw, window, instance, device, swapChain, selection, queues,
                   chain, swapChainImageViews, loop>>

(***************************************************************************)
(* pickPhysicalDevice                                                      *)
(***************************************************************************)
PickPhysicalDevice ==
    /\ pc = "pickPhysicalDevice"
    /\ UNCHANGED call
    /\ calls' = Append(calls, "pickPhysicalDevice")
    /\ \E devs \in DeviceLists :
        /\ devices' = devs
        /\ IF Len(devs) = 0
           THEN Throw("NoVulkanCapableGPU") /\ physicalDevice' = physicalDevice
           ELSE LET found == FirstSuitableFrom(devs, 1)
                    picked == IF found # VK_NULL_HANDLE THEN found ELSE physicalDevice
                IN /\ physicalDevice' = picked
                   /\ IF picked = VK_NULL_HANDLE
                      THEN Throw("NoSuitableGPU")
                      ELSE Return("createLogicalDevice")
    /\ UNCHANGED <<handles, queues, chain, swapChainImageViews, loop, outcome>>

(***************************************************************************)
(* createLogicalDevice                                                     *)
(***************************************************************************)
CreateLogicalDevice ==
    /\ pc = "createLogicalDevice"
    /\ UNCHANGED call
    /\ calls' = Append(calls, "createLogicalDevice")
    /\ LET indices == findQueueFamilies(devices[physicalDevice])
       IN IF ~has_value(indices.graphicsFamily)
             \/ ~has_value(indices.presentationFamily)
          THEN \* optional::value() of an empty optional
               Throw("bad_optional_access") /\ UNCHANGED <<device, queues>>
          ELSE \E result \in VkResults :
                  IF result # "VK_SUCCESS"
                  THEN /\ Throw("LogicalDeviceCreationFailed")
                       /\ UNCHANGED <<device, queues>>
                  ELSE /\ Return("createSwapChain")
                       /\ device' = "live"
                       /\ graphicsQueue' = <<value(indices.graphicsFamily)>>
                       /\ presentationQueue' = <<value(indices.presentationFamily)>>
    /\ UNCHANGED <<glfw, window, instance, surface, swapChain, selection, chain,
                   swapChainImageViews, loop, outcome>>

(***************************************************************************)
(* createSwapChain                                                         *)
(***************************************************************************)
CreateSwapChain ==
    /\ pc = "createSwapChain"
    /\ UNCHANGED call
    /\ calls' = Append(calls, "createSwapChain")
    /\ \E capabilities \in StartupCapabilities, framebuffer \in StartupFramebuffers :
        LET details == querySwapChainSupport(devices[physicalDevice])
            surfaceFormat == chooseSwapSurfaceFormat(details.formats)
            presentMode == chooseSwapPresentMode(details.presentModes)
            extent == chooseSwapExtent(capabilities, framebuffer)
            imageCount == chooseImageCount(capabilities)
            indices == findQueueFamilies(devices[physicalDevice])
        IN IF ~has_value(indices.graphicsFamily)
              \/ ~has_value(indices.presentationFamily)
           THEN Throw("bad_optional_access") /\ UNCHANGED <<swapChain, chain>>
           ELSE \E result \in VkResults :
                   IF result # "VK_SUCCESS"
                   THEN /\ Throw("SwapchainCreationFailed")
                        /\ UNCHANGED <<swapChain, chain>>
                   ELSE \* the driver creates at least the images asked for
                        \E n \in imageCount .. MaxImages :
                           /\ Return("createImageViews")
                           /\ swapChain' = "live"
                           /\ swapChainImages' = [i \in 1 .. n |-> i]
                           /\ swapChainImageFormat' = surfaceFormat.format
                           /\ swapChainExtent' = extent
    /\ UNCHANGED <<glfw, window, instance, surface, device, selection, queues,
                   swapChainImageViews, loop, outcome>>

(***************************************************************************)
(* createImageViews                                                        *)
(***************************************************************************)
\* The vector after resize() and the loop, when vkCreateImageView first
\* fails at position failAt (1-based; past the end when none fails).
ViewsCreatedBefore(n, failAt) ==
    [i \in 1 .. n |-> IF i < failAt THEN "live" ELSE "VK_NULL_HANDLE"]

CreateImageViews ==
    /\ pc = "createImageViews"
    /\ UNCHANGED call
    /\ calls' = Append(calls, "createImageViews")
    /\ LET n == Len(swapChainImages)
       IN \E failAt \in 1 .. (n + 1) :
             /\ swapChainImageViews' = ViewsCreatedBefore(n, failAt)
             /\ IF failAt <= n
                THEN Throw("ImageViewCreationFailed")
                ELSE Return("mainLoop")
    /\ UNCHANGED <<handles, selection, queues, chain, loop, outcome>>

(***************************************************************************)
(* mainLoop                                                                *)
(***************************************************************************)
\* glfwWindowShouldClose(window) == false: one glfwPollEvents, during which
\* the user may ask for the window to close.
PollEvents ==
    /\ pc = "mainLoop"
    /\ UNCHANGED call
    /\ shouldClose = FALSE
    /\ polls < MaxPolls
    /\ polls' = polls + 1
    /\ shouldClose' \in BOOLEAN
    /\ calls' = Append(calls, "glfwPollEvents")
    /\ UNCHANGED <<pc, handles, selection, queues, chain, swapChainImageViews,
                   error, outcome>>

\* The loop left without the close flag having been read as set.
LeaveMainLoopUnobserved ==
    /\ pc = "mainLoop"
    /\ UNCHANGED call
    /\ pc' = "cleanup"
    /\ UNCHANGED <<handles, selection, queues, chain, swapChainImageViews, loop,
                   error, outcome, calls>>

\* glfwWindowShouldClose(window) is true: the loop ends.
LeaveMainLoop ==
    /\ pc = "mainLoop"
    /\ UNCHANGED call
    /\ shouldClose = TRUE
    /\ pc' = "cleanup"
    /\ UNCHANGED <<handles, selection, queues, chain, swapChainImageViews, loop,
                   error, outcome, calls>>

(***************************************************************************)
(* cleanup                                                                 *)
(***************************************************************************)
\* cleanup() with the logical device destroyed before the swapchain.
CleanupCallsDeviceFirst(views) ==
    [i \in 1 .. Len(views) |-> "vkDestroyImageView"]
    \o <<"vkDestroyDevice", "vkDestroySwapchainKHR", "vkDestroySurfaceKHR",
         "vkDestroyInstance", "glfwDestroyWindow", "glfwTerminate">>

\* The collaborator calls of cleanup(), in the order it makes them.
CleanupCalls(views) ==
    [i \in 1 .. Len(views) |-> "vkDestroyImageView"]
    \o <<"vkDestroySwapchainKHR", "vkDestroyDevice", "vkDestroySurfaceKHR",
         "vkDestroyInstance", "glfwDestroyWindow", "glfwTerminate">>

Cleanup ==
    /\ pc = "cleanup"
    /\ UNCHANGED call
    /\ calls' = calls \o CleanupCalls(swapChainImageViews)
    /\ swapChainImageViews' = [i \in DOMAIN swapChainImageViews |-> "destroyed"]
    /\ swapChain' = "destroyed"
    /\ device' = "destroyed"
    /\ surface' = "destroyed"
    /\ instance' = "destroyed"
    /\ window' = "destroyed"
    /\ glfw' = "terminated"
    /\ pc' = "return"
    /\ UNCHANGED <<selection, queues, chain, loop, error, outcome>>

(***************************************************************************)
(* main                                                                    *)
(***************************************************************************)
\* The handler without its return EXIT_FAILURE: control falls through to
\* return EXIT_SUCCESS.
CatchFallsThrough ==
    /\ pc = "catch"
    /\ UNCHANGED call
    /\ diagnostic' = error
    /\ pc' = "return"
    /\ UNCHANGED <<handles, selection, queues, chain, swapChainImageViews, loop,
                   error, exitStatus, calls>>

\* catch (const std::exception& e): the message goes to std::cerr and main
\* returns EXIT_FAILURE.
Catch ==
    /\ pc = "catch"
    /\ UNCHANGED call
    /\ diagnostic' = error
    /\ exitStatus' = "EXIT_FAILURE"
    /\ pc' = "exited"
    /\ UNCHANGED <<handles, selection, queues, chain, swapChainImageViews, loop,
                   error, calls>>

\* run() returned: main returns EXIT_SUCCESS.
MainReturn ==
    /\ pc = "return"
    /\ UNCHANGED call
    /\ exitStatus' = "EXIT_SUCCESS"
    /\ pc' = "exited"
    /\ UNCHANGED <<handles, selection, queues, chain, swapChainImageViews, loop,
                   error, diagnostic, calls>>

Next ==
    \/ InitWindow
    \/ CreateInstance
    \/ CreateSurface
    \/ PickPhysicalDevice
    \/ CreateLogicalDevice
    \/ CreateSwapChain
    \/ CreateImageViews
    \/ PollEvents
    \/ LeaveMainLoop
    \/ Cleanup
    \/ Catch
    \/ MainReturn

Spec == Init /\ [][Next]_vars

(***************************************************************************)
(* Vocabulary of the properties.                                           *)
(***************************************************************************)
\* The setup steps in the order run() and initVulkan() call them.
SetupOrder ==
    <<"initWindow", "createInstance", "createSurface", "pickPhysicalDevice",
      "createLogicalDevice", "createSwapChain", "createImageViews">>

IsPrefix(s, t) == Len(s) <= Len(t) /\ \A i \in 1 .. Len(s) : s[i] = t[i]
Called(c) == \E i \in DOMAIN calls : calls[i] = c
LastCall == IF calls = << >> THEN "none" ELSE calls[Len(calls)]
Reverse(s) == [i \in 1 .. Len(s) |-> s[Len(s) + 1 - i]]

\* A setup step has failed: it raised an error, or the process was
\* terminated inside it.
Failed == error # "none" \/ exitStatus = "ABORTED"

\* Suitability as the contract words it, without the program's helpers.
Suitable(d) ==
    /\ \E i \in DOMAIN d.families : d.families[i].graphics
    /\ \E i \in DOMAIN d.families : d.families[i].presentationSupport
    /\ deviceExtensions \subseteq d.extensions
    /\ Len(d.formats) >= 1
    /\ Len(d.presentModes) >= 1
SuitablePositions == {k \in DOMAIN devices : Suitable(devices[k])}

LiveResources ==
    {r \in {"instance", "surface", "device", "swapChain"} :
        \/ r = "instance" /\ instance = "live"
        \/ r = "surface" /\ surface = "live"
        \/ r = "device" /\ device = "live"
        \/ r = "swapChain" /\ swapChain = "live"}
    \cup {"imageView" : i \in {j \in DOMAIN swapChainImageViews :
                                  swapChainImageViews[j] = "live"}}

(***************************************************************************)
(* C1: pickPhysicalDevice selects the suitable device of the smallest      *)
(* enumeration index, never a later suitable one or an unsuitable one; it  *)
(* raises NoSuitableGPU exactly when the list is non-empty and holds no    *)
(* suitable device, and NoVulkanCapableGPU when the list is empty.         *)
(***************************************************************************)
C1_PickFirstSuitable ==
    Called("pickPhysicalDevice") =>
        /\ physicalDevice # VK_NULL_HANDLE =>
              /\ physicalDevice \in SuitablePositions
              /\ \A k \in SuitablePositions : physicalDevice <= k
        /\ SuitablePositions # {} => physicalDevice # VK_NULL_HANDLE
        /\ LastCall = "pickPhysicalDevice" =>
              /\ error = "NoVulkanCapableGPU" <=> devices = << >>
              /\ error = "NoSuitableGPU" <=>
                    (devices # << >> /\ SuitablePositions = {})
              /\ error = "none" <=> SuitablePositions # {}

\* Two different suitable devices were enumerated and the earlier one won.
C1_Witness ==
    /\ Len(devices) = 2
    /\ SuitablePositions = {1, 2}
    /\ devices[1] # devices[2]
    /\ physicalDevice = 1
    /\ pc = "createLogicalDevice"

DestroyCalls ==
    {"vkDestroyImageView", "vkDestroySwapchainKHR", "vkDestroyDevice",
     "vkDestroySurfaceKHR", "vkDestroyInstance"}
IsDestroyCall(c) == c \in DestroyCalls
Destructions == SelectSeq(calls, IsDestroyCall)

\* The resource a setup step creates / a destroy call releases.
ResourceOf(c) ==
    CASE c \in {"createInstance", "vkDestroyInstance"} -> "instance"
      [] c \in {"createSurface", "vkDestroySurfaceKHR"} -> "surface"
      [] c \in {"createLogicalDevice", "vkDestroyDevice"} -> "device"
      [] c \in {"createSwapChain", "vkDestroySwapchainKHR"} -> "swapChain"
      [] c \in {"createImageViews", "vkDestroyImageView"} -> "imageViews"
      [] OTHER -> "none"
IsCreation(c) ==
    c \in {"createInstance", "createSurface", "createLogicalDevice",
           "createSwapChain", "createImageViews"}
IsHandleDestruction(c) == c \in DestroyCalls \ {"vkDestroyImageView"}
IsHandleCreation(c) == IsCreation(c) /\ c # "createImageViews"
ResourcesOf(s) == [i \in 1 .. Len(s) |-> ResourceOf(s[i])]

C3_TeardownOrder ==
    /\ Destructions # << >> =>
          /\ Destructions =
                [i \in 1 .. Len(swapChainImages) |-> "vkDestroyImageView"]
                \o <<"vkDestroySwapchainKHR", "vkDestroyDevice",
                     "vkDestroySurfaceKHR", "vkDestroyInstance">>
          /\ ResourcesOf(SelectSeq(calls, IsHandleDestruction))
                = Reverse(ResourcesOf(SelectSeq(calls, IsHandleCreation)))
          /\ LiveResources = {}
    /\ pc = "return" \/ exitStatus = "EXIT_SUCCESS" => Destructions # << >>

\* The program has exited with success after destroying the views of a
\* swapchain of at least two images.
C3_Witness ==
    /\ exitStatus = "EXIT_SUCCESS"
    /\ Len(swapChainImages) >= 2
    /\ Len(Destructions) = Len(swapChainImages) + 4

(***************************************************************************)
(* C4: when a setup step fails after resources were acquired, every        *)
(* resource acquired so far is released before the process exits: no       *)
(* acquired resource is live at process exit on a failure path.            *)
(***************************************************************************)
C4_PartialInitReleased ==
    (pc = "exited" /\ exitStatus = "EXIT_FAILURE") => LiveResources = {}

(***************************************************************************)
(* C5: the lifetime runs through the setup steps in order, none skipped or *)
(* reordered, each started only after every earlier one has completed      *)
(* successfully; the event loop polls only between the completed setup and *)
(* the first teardown call; the loop is left only once the close flag has  *)
(* been observed; nothing follows the teardown.                            *)
(***************************************************************************)
TeardownOrder(n) ==
    [i \in 1 .. n |-> "vkDestroyImageView"]
    \o <<"vkDestroySwapchainKHR", "vkDestroyDevice", "vkDestroySurfaceKHR",
         "vkDestroyInstance", "glfwDestroyWindow", "glfwTerminate">>
Polled(k) == [i \in 1 .. k |-> "glfwPollEvents"]
AllViewsLive ==
    /\ Len(swapChainImageViews) = Len(swapChainImages)
    /\ \A i \in DOMAIN swapChainImageViews : swapChainImageViews[i] = "live"

C5_Lifecycle ==
    /\ \/ IsPrefix(calls, SetupOrder)
       \/ calls = SetupOrder \o Polled(polls)
       \/ calls = SetupOrder \o Polled(polls)
                            \o TeardownOrder(Len(swapChainImages))
    /\ Called("createInstance") => glfw # "uninit" /\ window # "unset"
    /\ Called("createSurface") => instance # "unset"
    /\ Called("pickPhysicalDevice") => surface # "unset"
    /\ Called("createLogicalDevice") => physicalDevice # VK_NULL_HANDLE
    /\ Called("createSwapChain") => device # "unset"
    /\ Called("createImageViews") => swapChain # "unset"
    /\ Called("glfwPollEvents") =>
          Len(swapChainImageViews) = Len(swapChainImages)
    /\ pc = "mainLoop" =>
          /\ ~Failed
          /\ AllViewsLive
          /\ LiveResources = {"instance", "surface", "device", "swapChain",
                              "imageView"}
          /\ calls = SetupOrder \o Polled(polls)
    /\ polls > 0 => IsPrefix(SetupOrder \o Polled(polls), calls)
    /\ (pc \in {"cleanup", "return"} \/ Called("glfwTerminate")) =>
          shouldClose = TRUE
    /\ Called("glfwTerminate") =>
          /\ LastCall = "glfwTerminate"
          /\ pc \in {"return", "exited"}
    /\ pc = "exited" => ~ENABLED Next

\* The loop polled, saw the close flag, and the teardown has run.
C5_Witness ==
    /\ pc = "return"
    /\ polls >= 1
    /\ LastCall = "glfwTerminate"

(***************************************************************************)
(* C6: whenever a device is selected, its resolved queue-family indices    *)
(* are complete: it has a graphics-capable and a presentation-capable      *)
(* family, and the indices createLogicalDevice and createSwapChain resolve *)
(* again and dereference are both present.                                 *)
(***************************************************************************)
C6_SelectedIndicesComplete ==
    /\ error # "bad_optional_access"
    /\ physicalDevice # VK_NULL_HANDLE =>
          LET d == devices[physicalDevice]
              indices == findQueueFamilies(d)
          IN /\ has_value(indices.graphicsFamily)
             /\ has_value(indices.presentationFamily)
             /\ d.families[value(indices.graphicsFamily) + 1].graphics
             /\ d.families[value(indices.presentationFamily) + 1].presentationSupport
    /\ device # "unset" =>
          has_value(graphicsQueue) /\ has_value(presentationQueue)

\* Both later resolutions have run for a device whose graphics and
\* presentation families differ.
C6_Witness ==
    /\ pc = "createImageViews"
    /\ has_value(graphicsQueue)
    /\ has_value(presentationQueue)
    /\ graphicsQueue # presentationQueue

(***************************************************************************)
(* C7: when vkCreateImageView fails at some position, the batch is aborted *)
(* with ImageViewCreationFailed and the views created before that position *)
(* are released before the error propagates: no view remains live.         *)
(***************************************************************************)
C7_NoPartialViews ==
    error = "ImageViewCreationFailed" =>
        \A i \in DOMAIN swapChainImageViews : swapChainImageViews[i] # "live"

(***************************************************************************)
(* findQueueFamilies followed iteration by iteration over every family     *)
(* list of up to MaxScan families.                                         *)
(***************************************************************************)
InitScan ==
    /\ Constructed
    /\ call \in {[fn |-> "findQueueFamilies", properties |-> q, i |-> 0,
                  indices |-> [graphicsFamily |-> nullopt,
                               presentationFamily |-> nullopt],
                  returned |-> FALSE] :
                     q \in SeqsUpTo(QueueFamilyProperties, MaxScan)}

\* for (i < count): not complete, so the body runs and i is incremented.
ScanIteration ==
    /\ call.fn = "findQueueFamilies"
    /\ ~call.returned
    /\ call.i < Len(call.properties)
    /\ ~isComplete(call.indices)
    /\ call' = [call EXCEPT !.indices = ScanStep(call.properties, call.i, call.indices),
                            !.i = call.i + 1]
    /\ UNCHANGED program

\* The loop ends (i reached count, or the break) and indices is returned.
ScanReturn ==
    /\ call.fn = "findQueueFamilies"
    /\ ~call.returned
    /\ call.i >= Len(call.properties) \/ isComplete(call.indices)
    /\ call' = [call EXCEPT !.returned = TRUE]
    /\ UNCHANGED program

NextScan == ScanIteration \/ ScanReturn

SpecFindQueueFamilies == InitScan /\ [][NextScan]_vars

Min(S) == CHOOSE x \in S : \A y \in S : x <= y
Max(S) == CHOOSE x \in S : \A y \in S : x >= y
\* The 0-based indices below n of the families with the graphics bit / with
\* presentation support.
GraphicsBelow(q, n) == {j \in 0 .. (n - 1) : q[j + 1].graphics}
PresentBelow(q, n) == {j \in 0 .. (n - 1) : q[j + 1].presentationSupport}
\* Where a scan that stops once both kinds have been seen stops.
StopPoint(q) ==
    LET G == GraphicsBelow(q, Len(q))
        P == PresentBelow(q, Len(q))
    IN IF G # {} /\ P # {}
       THEN (IF Min(G) >= Min(P) THEN Min(G) ELSE Min(P)) + 1
       ELSE Len(q)
OptionalOf(S, pick) == IF S = {} THEN nullopt ELSE <<pick>>

(***************************************************************************)
(* C8 as stated: graphicsFamily is the smallest index with the graphics    *)
(* bit, presentationFamily the smallest index with presentation support,   *)
(* each recorded independently, and the scan stops once both are recorded. *)
(***************************************************************************)
C8_SmallestIndices ==
    (call.fn = "findQueueFamilies" /\ call.returned) =>
        LET q == call.properties
            G == GraphicsBelow(q, Len(q))
            P == PresentBelow(q, Len(q))
        IN /\ call.indices.graphicsFamily = (IF G = {} THEN nullopt ELSE <<Min(G)>>)
           /\ call.indices.presentationFamily =
                 (IF P = {} THEN nullopt ELSE <<Min(P)>>)
           /\ call.i = StopPoint(q)

(***************************************************************************)
(* C8 amended: the scan runs in index order and stops after the first      *)
(* index by which both a graphics-capable and a presentation-capable       *)
(* family have been seen (at the end of the list otherwise); graphicsFamily*)
(* is the largest scanned index with the graphics bit and                  *)
(* presentationFamily the largest scanned index with presentation support, *)
(* each recorded independently and absent when no scanned family has it.   *)
(***************************************************************************)
C8_LastScannedIndices ==
    (call.fn = "findQueueFamilies" /\ call.returned) =>
        LET q == call.properties
            G == GraphicsBelow(q, call.i)
            P == PresentBelow(q, call.i)
        IN /\ call.i = StopPoint(q)
           /\ call.indices.graphicsFamily = (IF G = {} THEN nullopt ELSE <<Max(G)>>)
           /\ call.indices.presentationFamily =
                 (IF P = {} THEN nullopt ELSE <<Max(P)>>)
           /\ call.indices = findQueueFamilies([families |-> q])

\* A scan has returned a graphics index that is not the smallest one, with
\* a presentation index different from it.
C8_Witness ==
    /\ call.fn = "findQueueFamilies"
    /\ call.returned
    /\ isComplete(call.indices)
    /\ value(call.indices.graphicsFamily)
          > Min(GraphicsBelow(call.properties, Len(call.properties)))
    /\ call.indices.graphicsFamily # call.indices.presentationFamily

(***************************************************************************)
(* chooseSwapExtent over boundary values of every field it reads.          *)
(***************************************************************************)
ExtentValues == {0, 1, INT_MAX, INT_MAX + 1, UINT32_MAX - 1, UINT32_MAX}
\* glfwGetFramebufferSize writes non-negative ints.
FramebufferValues == {0, 1, INT_MAX}
Extents == [width : ExtentValues, height : ExtentValues]

InitExtent ==
    /\ Constructed
    /\ call \in {[fn |-> "chooseSwapExtent",
                  capabilities |-> [currentExtent |-> c, minImageExtent |-> lo,
                                    maxImageExtent |-> hi],
                  framebuffer |-> Extent2D(0, 0),
                  returned |-> FALSE,
                  result |-> Extent2D(0, 0)] :
                     c \in Extents,
                     lo \in Extents,
                     hi \in Extents}
    /\ call.capabilities.minImageExtent.width <= call.capabilities.maxImageExtent.width
    /\ call.capabilities.minImageExtent.height <= call.capabilities.maxImageExtent.height

ChooseSwapExtent ==
    /\ call.fn = "chooseSwapExtent"
    /\ ~call.returned
    /\ \E framebuffer \in [width : FramebufferValues, height : FramebufferValues] :
          call' = [call EXCEPT !.framebuffer = framebuffer,
                               !.result = chooseSwapExtent(call.capabilities, framebuffer),
                               !.returned = TRUE]
    /\ UNCHANGED program

NextExtent == ChooseSwapExtent

SpecChooseSwapExtent == InitExtent /\ [][NextExtent]_vars

\* r is v brought into [lo, hi].
IsClamped(r, v, lo, hi) ==
    /\ lo <= r /\ r <= hi
    /\ (lo <= v /\ v <= hi) => r = v
    /\ v < lo => r = lo
    /\ v > hi => r = hi

(***************************************************************************)
(* C9: when the current extent is the sentinel (read off its width, as the *)
(* program does) the result is the framebuffer size with width and height  *)
(* each clamped into the surface's range for that dimension; otherwise it  *)
(* is the current extent unchanged, also when that lies outside the range. *)
(***************************************************************************)
C9_ExtentSelection ==
    (call.fn = "chooseSwapExtent" /\ call.returned) =>
        LET caps == call.capabilities
        IN IF caps.currentExtent.width = UINT32_MAX
           THEN /\ IsClamped(call.result.width, call.framebuffer.width,
                             caps.minImageExtent.width, caps.maxImageExtent.width)
                /\ IsClamped(call.result.height, call.framebuffer.height,
                             caps.minImageExtent.height, caps.maxImageExtent.height)
           ELSE call.result = caps.currentExtent

\* The sentinel is reported, the framebuffer is wider than the surface
\* allows and its height is within range and different from the width
\* limit: the width is cut to the maximum and the height kept.
C9_Witness ==
    /\ call.fn = "chooseSwapExtent"
    /\ call.returned
    /\ call.capabilities.currentExtent = Extent2D(UINT32_MAX, UINT32_MAX)
    /\ call.capabilities.minImageExtent = Extent2D(1, 1)
    /\ call.framebuffer.width > call.capabilities.maxImageExtent.width
    /\ call.framebuffer.height < call.capabilities.maxImageExtent.height
    /\ call.framebuffer.height >= 1
    /\ call.capabilities.maxImageExtent.width # call.capabilities.maxImageExtent.height
    /\ call.result = Extent2D(call.capabilities.maxImageExtent.width,
                              call.framebuffer.height)

(***************************************************************************)
(* The image count of createSwapChain over every (min, max) pair.          *)
(***************************************************************************)
InitImageCount ==
    /\ Constructed
    /\ call \in {[fn |-> "imageCount",
                  capabilities |-> [minImageCount |-> lo, maxImageCount |-> hi],
                  returned |-> FALSE,
                  result |-> 0] : lo \in Uint32, hi \in Uint32}

ChooseImageCount ==
    /\ call.fn = "imageCount"
    /\ ~call.returned
    /\ call' = [call EXCEPT !.result = chooseImageCount(call.capabilities),
                            !.returned = TRUE]
    /\ UNCHANGED program

NextImageCount == ChooseImageCount

SpecImageCount == InitImageCount /\ [][NextImageCount]_vars

\* The capabilities the claim speaks of: no maximum, or a maximum not below
\* the minimum.
CountsConsistent(caps) ==
    caps.maxImageCount = 0 \/ caps.minImageCount <= caps.maxImageCount

(***************************************************************************)
(* C10 as stated: the request is min + 1, or max when max is nonzero and   *)
(* smaller than min + 1; so for every (min, max) with max = 0 or           *)
(* min <= max the request is at least min and, when max is nonzero, at     *)
(* most max.                                                               *)
(***************************************************************************)
C10_RequestWithinBounds ==
    (call.fn = "imageCount" /\ call.returned) =>
        LET caps == call.capabilities
        IN /\ call.result =
                 (IF caps.maxImageCount # 0 /\ caps.maxImageCount < caps.minImageCount + 1
                  THEN caps.maxImageCount
                  ELSE caps.minImageCount + 1)
           /\ CountsConsistent(caps) =>
                 /\ call.result >= caps.minImageCount
                 /\ caps.maxImageCount # 0 => call.result <= caps.maxImageCount

(***************************************************************************)
(* C10 amended: the request is min + 1 in uint32_t arithmetic (0 when min  *)
(* is the largest value), or max when max is nonzero and smaller than      *)
(* that; so for every (min, max) with min below the largest value and      *)
(* max = 0 or min <= max, the request is at least min and, when max is     *)
(* nonzero, at most max; min = 3, max = 3 gives 3.                         *)
(***************************************************************************)
C10_RequestWithinBoundsBelowMax ==
    (call.fn = "imageCount" /\ call.returned) =>
        LET caps == call.capabilities
            wrapped == IF caps.minImageCount = UINT32_MAX
                       THEN 0 ELSE caps.minImageCount + 1
        IN /\ call.result =
                 (IF caps.maxImageCount # 0 /\ caps.maxImageCount < wrapped
                  THEN caps.maxImageCount
                  ELSE wrapped)
           /\ (caps.minImageCount < UINT32_MAX /\ CountsConsistent(caps)) =>
                 /\ call.result >= caps.minImageCount
                 /\ caps.maxImageCount # 0 => call.result <= caps.maxImageCount
           /\ (caps.minImageCount = 3 /\ caps.maxImageCount = 3) => call.result = 3

\* min = 3, max = 3: the request was clamped from 4 to 3.
C10_Witness ==
    /\ call.fn = "imageCount"
    /\ call.returned
    /\ call.capabilities = [minImageCount |-> 3, maxImageCount |-> 3]
    /\ call.result = 3

(***************************************************************************)
(* chooseSwapPresentMode over every non-empty list of up to MaxModeScan    *)
(* present modes: isDeviceSuitable lets no device with an empty list be    *)
(* selected, and createSwapChain passes the selected device's list.        *)
(***************************************************************************)
\* The values of VkPresentModeKHR a surface can report.
VkPresentModeKHR == {"IMMEDIATE", "MAILBOX", "FIFO", "FIFO_RELAXED"}

InitPresentMode ==
    /\ Constructed
    /\ call \in {[fn |-> "chooseSwapPresentMode",
                  availablePresentModes |-> m,
                  returned |-> FALSE,
                  result |-> "UNDEFINED"] :
                     m \in SeqsUpTo(VkPresentModeKHR, MaxModeScan) \ {<< >>}}

ChooseSwapPresentMode ==
    /\ call.fn = "chooseSwapPresentMode"
    /\ ~call.returned
    /\ call' = [call EXCEPT !.result = chooseSwapPresentMode(call.availablePresentModes),
                            !.returned = TRUE]
    /\ UNCHANGED program

NextPresentMode == ChooseSwapPresentMode

SpecPresentMode == InitPresentMode /\ [][NextPresentMode]_vars

\* The elements of a list.
Range(s) == {s[k] : k \in DOMAIN s}

VkSurfaceFormatKHR ==
    [format : {"B8G8R8A8_SRGB", "B8G8R8A8_UNORM"},
     colorSpace : {"SRGB_NONLINEAR", "DISPLAY_P3_NONLINEAR"}]

InitSurfaceFormat ==
    /\ Constructed
    /\ call \in {NoCall} \cup
                {[fn |-> "chooseSwapSurfaceFormat",
                  availableFormats |-> f,
                  returned |-> FALSE,
                  result |-> IndeterminateFormat] :
                     f \in SeqsUpTo(VkSurfaceFormatKHR, MaxFormatScan) \ {<< >>}}

ChooseSwapSurfaceFormat ==
    /\ call.fn = "chooseSwapSurfaceFormat"
    /\ ~call.returned
    /\ call' = [call EXCEPT !.result = chooseSwapSurfaceFormat(call.availableFormats),
                            !.returned = TRUE]
    /\ UNCHANGED program

NextSurfaceFormat ==
    \/ call = NoCall /\ Next
    \/ ChooseSwapSurfaceFormat

SpecSurfaceFormat == InitSurfaceFormat /\ [][NextSurfaceFormat]_vars

(***************************************************************************)
(* C12: format selection over a non-empty supported list returns the       *)
(* (B8G8R8A8-sRGB, sRGB-nonlinear) pair whenever the list holds it at any  *)
(* position, whatever precedes or follows it, and element 0 of the list    *)
(* when it does not, so the result is fixed by the list; the list passed   *)
(* to it in createSwapChain, that of the selected device, is never empty,  *)
(* and the format the swapchain records is one of that list.               *)
(***************************************************************************)
C12_FormatSelection ==
    /\ (call.fn = "chooseSwapSurfaceFormat" /\ call.returned) =>
          LET f == call.availableFormats
          IN /\ f # << >>
             /\ PreferredFormat \in Range(f) => call.result = PreferredFormat
             /\ PreferredFormat \notin Range(f) => call.result = f[1]
    /\ physicalDevice # VK_NULL_HANDLE =>
          querySwapChainSupport(devices[physicalDevice]).formats # << >>
    /\ swapChain # "unset" =>
          LET f == querySwapChainSupport(devices[physicalDevice]).formats
          IN /\ swapChainImageFormat # IndeterminateFormat.format
             /\ swapChainImageFormat =
                   (IF PreferredFormat \in Range(f)
                    THEN PreferredFormat.format ELSE f[1].format)

\* The preferred pair was found at index 2 of a list of four, behind an
\* entry of its format in another colour space and before another entry.
C12_Witness ==
    /\ call.fn = "chooseSwapSurfaceFormat"
    /\ call.returned
    /\ Len(call.availableFormats) = 4
    /\ call.availableFormats[1] =
          [format |-> "B8G8R8A8_SRGB", colorSpace |-> "DISPLAY_P3_NONLINEAR"]
    /\ call.availableFormats[2] = OtherFormat
    /\ call.availableFormats[3] = PreferredFormat
    /\ call.availableFormats[4] = OtherFormat
    /\ call.result = PreferredFormat

====
